---- MODULE Spec2Model ----
(***************************************************************************)
(* Model of the client-side session wrapper created by                     *)
(* createInterviewWorkflow (src/unnamed/part_002): the state object        *)
(* (isConnected, messages, transcript), the eight single-slot callback     *)
(* references, the six listeners subscribed on the Vapi client and the     *)
(* public API returned to the UI layer.                                    *)
(*                                                                         *)
(* The Vapi client is an external event source with a two-method control   *)
(* surface.  It is modelled as a recording double: every step records the  *)
(* calls made on it (calls) and the consumer callbacks invoked (fired).    *)
(*                                                                         *)
(* src/lib/vapi.sdk.ts holds an earlier revision of the same wrapper (no   *)
(* transcript list, no workflow-step / function-call slots, stop() and the *)
(* error listener leave isConnected alone, destroy() always calls          *)
(* vapi.stop()).  The faulty variants stop_keepsFlag,                      *)
(* MessageFired_genericOnly and clearMessages_messagesOnly below behave as *)
(* that revision does.                                                     *)
(*                                                                         *)
(* The second half models the Agent component                              *)
(* (src/components/Agent.tsx) on top of the wrapper: its React state, the  *)
(* mount effect and its cleanup, the feedback effect, handleCall and       *)
(* handleDisconnect.  Spec explores the wrapper under arbitrary consumers  *)
(* and an arbitrary event source; SpecAgent explores the component driving *)
(* one wrapper at a time, with a Vapi client that emits call-start only    *)
(* for a session it was asked to start.                                    *)
(***************************************************************************)
EXTENDS Integers, Sequences, FiniteSets, TLC

\* ---- bounds of the exploration ----
MaxMsgs == 2    \* longest messages / transcript list explored
MaxReg  == 2    \* registrations explored per behaviour
MaxStarts   == 2   \* vapi.start calls explored per Vapi client
MaxWrappers == 2   \* wrappers one component creates (mount plus re-runs)
MaxPending  == 2   \* createFeedback calls awaiting their result at one time

\* ---- values ----
Null      == "null"
Undefined == "undefined"

VAPI_WORKFLOW_ID == "2757e744-d97e-4d90-b429-ce4232fa5ef3"

CallbackSlots ==
  { "callStartCallback", "callEndCallback", "messageCallback",
    "speechStartCallback", "speechEndCallback", "errorCallback",
    "workflowStepCallback", "functionCallCallback" }

Callbacks  == {"cb1", "cb2", "cb3"}   \* consumer functions that can be registered
Timestamps == {"T1"}             \* readings of new Date().toISOString()
Errors     == {"E1", "E2"}       \* Error objects the client can emit

\* a payload of the Vapi client's "message" event
Msg(type, transcriptType, role, transcript, step, functionCall) ==
  [ type |-> type, transcriptType |-> transcriptType, role |-> role,
    transcript |-> transcript, step |-> step, functionCall |-> functionCall ]

TranscriptEvents ==
  { Msg("transcript", "final", "user", "Hi", Undefined, Undefined),
    Msg("transcript", "final", "assistant", "Hello Jane", Undefined, Undefined),
    Msg("transcript", "final", Undefined, "Hi", Undefined, Undefined),
    Msg("transcript", "partial", "user", "Hi", Undefined, Undefined),
    Msg("transcript", Undefined, "assistant", "Hello Jane", Undefined, Undefined) }

OtherEvents ==
  { Msg("workflow-step", Undefined, Undefined, Undefined, "node1", Undefined),
    Msg("function-call", Undefined, Undefined, Undefined, Undefined, "fn1"),
    Msg("status-update", Undefined, Undefined, Undefined, Undefined, Undefined),
    Msg(Undefined, Undefined, Undefined, Undefined, Undefined, Undefined) }

MessageEvents == TranscriptEvents \cup OtherEvents

\* what start() may be handed, and what vapi.start may do
VariableValues      == {Undefined, "vars"}
EngineStartOutcomes == {"ok", "throw", "reject"}

VARIABLES
  state,           \* the wrapper's state object: isConnected, messages, transcript
  callbacks,       \* the eight callback references, Null when never registered
  callInProgress,  \* the client's call: from a call-start to the next call-end / error
  op,              \* the operation or event handled by the last step (see Step)
  nreg,            \* registrations made so far
  delivered,       \* final transcript events delivered since the lists were last emptied
  ui,              \* the Agent component: lifecycle phase, props, React state, workflowRef
  wrappers,        \* every wrapper the component created: "live" or "destroyed"
  engine,          \* the Vapi client of the current wrapper: sessions by stage
  feedbacks,       \* createFeedback calls awaiting their result
  act,             \* what the last step of the component did (see Did)
  props,           \* the props of the render handleCall reads its variables from
  handed,          \* the variables handleCall last built, with the props it read
  tk,              \* one token request: helper, endpoint and provider (see IdleToken)
  auth             \* one lookup through safeAuth (see IdleAuth)

agentVars == <<ui, wrappers, engine, feedbacks, act>>

\* the inputs and results of the two computations checked on their own
pureVars == <<props, handed, tk, auth>>

vars == <<state, callbacks, callInProgress, op, nreg, delivered,
          ui, wrappers, engine, feedbacks, act, props, handed, tk, auth>>

\* ---- helpers ----

\* a || b of the source, for a possibly missing string
OrElse(a, b) == IF a = Undefined THEN b ELSE a

\* one invocation of a consumer callback
Call(slot, cb, arg) == [slot |-> slot, cb |-> cb, arg |-> arg]

\* cb?.(arg): the invocation made, if the slot holds a callback
Invoke(slot, arg) ==
  IF callbacks[slot] = Null THEN <<>>
  ELSE << Call(slot, callbacks[slot], arg) >>

\* the events the six listeners handle
EventKinds ==
  {"call-start", "call-end", "message", "speech-start", "speech-end", "error"}

\* what a stop() or destroy() remembers of the step before it when that step
\* was the same operation: the calls it made on the Vapi client; a listener
\* remembers the same of a destroy() that returned just before its event
Summary(kind) ==
  IF kind \in {"stop", "destroy"} /\ op.kind = kind
  THEN [kind |-> op.kind, calls |-> op.calls]
  ELSE IF kind \in EventKinds /\ op.kind = "destroy"
  THEN [kind |-> op.kind, calls |-> op.calls]
  ELSE [kind |-> "other", calls |-> <<>>]

\* one record per step: kind of operation, its input, the consumer callbacks
\* invoked, the calls made on the Vapi client, whether it threw, the wrapper
\* as it was when the step began, and the summary of the step before
Step(kind, arg, fired, calls, raised) ==
  [ kind |-> kind, arg |-> arg, fired |-> fired, calls |-> calls, raised |-> raised,
    pre |-> [ state |-> state, callbacks |-> callbacks,
              callInProgress |-> callInProgress ],
    prev |-> Summary(kind) ]

\* vapi.start(config.workflowId, { variableValues: variableValues || {} })
VapiStart(variableValues) ==
  [fn |-> "start", workflowId |-> VAPI_WORKFLOW_ID,
   variableValues |-> OrElse(variableValues, "{}")]

\* vapi.stop()
VapiStop == [fn |-> "stop", workflowId |-> Undefined, variableValues |-> Undefined]

\* ---- the Agent component before its first render ----

CallStatus == {"INACTIVE", "CONNECTING", "ACTIVE", "FINISHED"}

Types == {"generate", "interview"}

NoRef == 0    \* workflowRef.current === null

\* ---- the props handleCall builds its variables from ----

MaxQuestions == 2

\* an optional prop that is a list: <<>> when the prop is missing, <<list>>
\* when it is given
Missing == <<>>
Given(list) == << list >>

Names     == {Undefined, "", "Jane"}
UserIds   == {Undefined, "", "u1"}
Questions == {"Why?", "How?"}

QuestionLists ==
  UNION { [1..n -> Questions] : n \in 0..MaxQuestions }

\* AgentProps as far as handleCall reads them
AgentProps ==
  [ userName : Names, userId : UserIds, type : Types,
    questions : {Missing} \cup { Given(list) : list \in QuestionLists } ]

\* before the first render
NoProps ==
  [userName |-> Undefined, userId |-> Undefined, type |-> "generate",
   questions |-> Missing]

\* ---- one token request, from the helper to the provider and back ----

\* the public token of the build, NEXT_PUBLIC_VAPI_WEB_TOKEN
PublicTokens == {Undefined, "", "pub"}

\* an HTTP response as its reader sees it: status, whether the body parses
\* as JSON, and the fields of the parsed body
HttpResponse(status, json, success, token, error) ==
  [status |-> status, json |-> json, success |-> success, token |-> token,
   error |-> error]

\* no response yet
NoResponse == HttpResponse(0, FALSE, FALSE, Undefined, Undefined)

\* what the provider does with a request: the request fails, or it answers
\* with a status and a body that may not parse or may carry no token
ProviderStatuses == {400, 401, 403, 404, 429, 500, 503}

ProviderOutcomes ==
  { [failed |-> TRUE, status |-> 0, json |-> FALSE, token |-> Undefined],
    [failed |-> FALSE, status |-> 200, json |-> TRUE, token |-> "t1"],
    [failed |-> FALSE, status |-> 201, json |-> TRUE, token |-> "t2"],
    [failed |-> FALSE, status |-> 200, json |-> TRUE, token |-> Undefined],
    [failed |-> FALSE, status |-> 200, json |-> FALSE, token |-> Undefined] }
  \cup { [failed |-> FALSE, status |-> st, json |-> j, token |-> Undefined] :
            st \in ProviderStatuses, j \in BOOLEAN }

\* the provider was not asked
NoProvider == [failed |-> FALSE, status |-> 0, json |-> FALSE, token |-> Undefined]

\* the body of a request to the endpoint: whether it parses as JSON, and its
\* userId (Undefined when the key is missing)
TokenUserIds == {Undefined, "", "u1", "u2"}
TokenRequests == [valid : BOOLEAN, userId : TokenUserIds]

\* nothing requested yet
IdleToken(env) ==
  [ pc |-> "idle", env |-> env, caller |-> "none", sent |-> FALSE,
    request |-> [valid |-> TRUE, userId |-> Undefined],
    provider |-> NoProvider, providerCalls |-> <<>>,
    response |-> NoResponse, received |-> NoResponse,
    result |-> [settled |-> "pending", value |-> Undefined] ]

\* ---- one lookup through safeAuth ----

MaxLookups == 2

\* what a lookup of the Admin SDK may throw: the code and the codePrefix the
\* thrown value carries, Undefined where it has none
Thrown(name, code, codePrefix) ==
  [name |-> name, code |-> code, codePrefix |-> codePrefix]

NoError == Thrown("none", Undefined, Undefined)

LookupErrors ==
  { Thrown("notFound", "auth/user-not-found", "auth"),
    Thrown("notFoundPlain", "auth/user-not-found", Undefined),
    Thrown("invalidEmail", "auth/invalid-email", "auth"),
    Thrown("internal", "auth/internal-error", "auth"),
    Thrown("tooManyRequests", "auth/too-many-requests", "auth"),
    Thrown("credential", "app/invalid-credential", "app"),
    Thrown("network", "ECONNRESET", Undefined),
    Thrown("typeError", Undefined, Undefined) }

\* the user records a lookup may find
NoUser == "none"
UserRecords == {"userA", "userB"}

\* how rawAuth.getUserByEmail / rawAuth.getUser settles
LookupOutcomes ==
  { [user |-> u, error |-> NoError] : u \in UserRecords } \cup
  { [user |-> NoUser, error |-> e] : e \in LookupErrors }

AuthMethods == {"getUserByEmail", "getUser"}
LookupKeys  == {"k1", "k2", "k3"}

\* no lookup under way; made counts the lookups so far
IdleAuth(made) ==
  [ pc |-> "idle", method |-> "none", key |-> Undefined, made |-> made,
    outcome |-> [user |-> NoUser, error |-> NoError],
    result |-> [settled |-> "pending", user |-> NoUser, error |-> NoError] ]

\* useState / useRef initial values; the props arrive with the first render
InitialUi ==
  [ phase |-> "initial", type |-> Undefined, callStatus |-> "INACTIVE",
    messages |-> <<>>, isSpeaking |-> FALSE, lastMessage |-> "",
    workflowRef |-> NoRef, cleanup |-> FALSE ]

\* a Vapi client nobody has called yet: sessions asked for and not yet
\* answered, calls running, start promises still to be rejected, vapi.start
\* calls so far
IdleEngine == [starting |-> 0, running |-> 0, rejecting |-> 0, starts |-> 0]

Constructed ==
  /\ state = [isConnected |-> FALSE, messages |-> <<>>, transcript |-> <<>>]
  /\ callbacks = [s \in CallbackSlots |-> Null]
  /\ callInProgress = FALSE
  /\ op = [ kind |-> "create", arg |-> Undefined, fired |-> <<>>, calls |-> <<>>,
            raised |-> FALSE,
            pre |-> [ state |-> [isConnected |-> FALSE, messages |-> <<>>,
                                 transcript |-> <<>>],
                      callbacks |-> [s \in CallbackSlots |-> Null],
                      callInProgress |-> FALSE ],
            prev |-> [kind |-> "other", calls |-> <<>>] ]
  /\ nreg = 0
  /\ delivered = <<>>
  /\ ui = InitialUi
  /\ wrappers = <<>>
  /\ engine = IdleEngine
  /\ feedbacks = 0
  /\ act = [ kind |-> "none", arg |-> Undefined, pre |-> InitialUi, nav |-> <<>>,
             feedback |-> <<>>, caught |-> FALSE, alerted |-> FALSE,
             since |-> 0 ]

Init ==
  /\ Constructed
  /\ props = NoProps
  /\ handed = <<>>
  /\ tk = IdleToken(Undefined)
  /\ auth = IdleAuth(0)

\* ---- listeners subscribed on the Vapi client ----

CallStart ==
  /\ state' = [state EXCEPT !.isConnected = TRUE]
  /\ callInProgress' = TRUE
  /\ op' = Step("call-start", Undefined, Invoke("callStartCallback", Undefined), <<>>, FALSE)
  /\ UNCHANGED <<callbacks, nreg>>

CallEnd_clearing ==
  /\ state' = [isConnected |-> FALSE, messages |-> <<>>, transcript |-> <<>>]
  /\ callInProgress' = FALSE
  /\ op' = Step("call-end", Undefined, Invoke("callEndCallback", Undefined), <<>>, FALSE)
  /\ UNCHANGED <<callbacks, nreg>>

CallEnd ==
  /\ state' = [state EXCEPT !.isConnected = FALSE]
  /\ callInProgress' = FALSE
  /\ op' = Step("call-end", Undefined, Invoke("callEndCallback", Undefined), <<>>, FALSE)
  /\ UNCHANGED <<callbacks, nreg>>

IsFinalTranscript_any(message) == message.type = "transcript"

\* message.type === "transcript" and message.transcriptType === "final"
IsFinalTranscript(message) ==
  /\ message.type = "transcript"
  /\ message.transcriptType = "final"

TranscriptMessage_userOnly(message, now) ==
  [ role |-> "user", content |-> message.transcript, timestamp |-> now ]

\* the entry pushed to state.transcript and state.messages
TranscriptMessage(message, now) ==
  [ role      |-> OrElse(message.role, "user"),
    content   |-> message.transcript,
    timestamp |-> now ]

MessageFired_genericOnly(message) ==
  IF message.type = "transcript"
  THEN IF message.transcriptType = "final"
       THEN Invoke("messageCallback", message)
       ELSE <<>>
  ELSE IF message.type \in {"workflow-step", "function-call"}
  THEN Invoke("messageCallback", message)
  ELSE <<>>

MessageFired_catchAll(message) ==
  IF message.type = "transcript" /\ message.transcriptType # "final"
  THEN <<>>
  ELSE IF message.type = "workflow-step"
  THEN Invoke("workflowStepCallback", message.step)
         \o Invoke("messageCallback", message)
  ELSE IF message.type = "function-call"
  THEN Invoke("functionCallCallback", message.functionCall)
         \o Invoke("messageCallback", message)
  ELSE Invoke("messageCallback", message)

\* the consumer callbacks the message listener invokes, in order
MessageFired(message) ==
  IF message.type = "transcript"
  THEN IF message.transcriptType = "final"
       THEN Invoke("messageCallback", message)
       ELSE <<>>
  ELSE IF message.type = "workflow-step"
  THEN Invoke("workflowStepCallback", message.step)
         \o Invoke("messageCallback", message)
  ELSE IF message.type = "function-call"
  THEN Invoke("functionCallCallback", message.functionCall)
         \o Invoke("messageCallback", message)
  ELSE <<>>

Message_transcriptOnly(message) ==
  /\ IF IsFinalTranscript(message)
     THEN /\ Len(state.messages) < MaxMsgs
          /\ Len(state.transcript) < MaxMsgs
          /\ \E now \in Timestamps :
               state' = [state EXCEPT
                          !.transcript = Append(@, TranscriptMessage(message, now))]
     ELSE state' = state
  /\ op' = Step("message", message, MessageFired(message), <<>>, FALSE)
  /\ UNCHANGED <<callbacks, callInProgress, nreg>>

Message_newestFirst(message) ==
  /\ IF IsFinalTranscript(message)
     THEN /\ Len(state.messages) < MaxMsgs
          /\ Len(state.transcript) < MaxMsgs
          /\ \E now \in Timestamps :
               state' = [state EXCEPT
                          !.transcript = << TranscriptMessage(message, now) >> \o @,
                          !.messages   = << TranscriptMessage(message, now) >> \o @]
     ELSE state' = state
  /\ op' = Step("message", message, MessageFired(message), <<>>, FALSE)
  /\ UNCHANGED <<callbacks, callInProgress, nreg>>

\* vapi.on("message", ...): the transcript / workflow-step / function-call router
Message(message) ==
  /\ IF IsFinalTranscript(message)
     THEN /\ Len(state.messages) < MaxMsgs
          /\ Len(state.transcript) < MaxMsgs
          /\ \E now \in Timestamps :
               state' = [state EXCEPT
                          !.transcript = Append(@, TranscriptMessage(message, now)),
                          !.messages   = Append(@, TranscriptMessage(message, now))]
     ELSE state' = state
  /\ op' = Step("message", message, MessageFired(message), <<>>, FALSE)
  /\ UNCHANGED <<callbacks, callInProgress, nreg>>

SpeechStart ==
  /\ op' = Step("speech-start", Undefined, Invoke("speechStartCallback", Undefined), <<>>, FALSE)
  /\ UNCHANGED <<state, callbacks, callInProgress, nreg>>

SpeechEnd ==
  /\ op' = Step("speech-end", Undefined, Invoke("speechEndCallback", Undefined), <<>>, FALSE)
  /\ UNCHANGED <<state, callbacks, callInProgress, nreg>>

Error_keepsFlag(error) ==
  /\ callInProgress' = FALSE
  /\ op' = Step("error", error, Invoke("errorCallback", error), <<>>, FALSE)
  /\ UNCHANGED <<state, callbacks, nreg>>

Error_cancelling(error) ==
  /\ state' = [state EXCEPT !.isConnected = FALSE]
  /\ callInProgress' = FALSE
  /\ op' = Step("error", error, Invoke("errorCallback", error),
                IF state.isConnected THEN << VapiStop >> ELSE <<>>, FALSE)
  /\ UNCHANGED <<callbacks, nreg>>

\* vapi.on("error", ...)
Error(error) ==
  /\ state' = [state EXCEPT !.isConnected = FALSE]
  /\ callInProgress' = FALSE
  /\ op' = Step("error", error, Invoke("errorCallback", error), <<>>, FALSE)
  /\ UNCHANGED <<callbacks, nreg>>

\* ---- public API ----

start_unguarded(variableValues, outcome) ==
  /\ op' = Step("start", variableValues, <<>>,
                << VapiStart(variableValues) >>, outcome = "throw")
  /\ UNCHANGED <<state, callbacks, callInProgress, nreg>>

\* start(variableValues); outcome is what vapi.start does when it is reached:
\* a throw is logged and rethrown to the caller; the promise vapi.start
\* returns is dropped, so a later rejection never reaches the caller
start(variableValues, outcome) ==
  /\ IF state.isConnected
     THEN op' = Step("start", variableValues, <<>>, <<>>, FALSE)
     ELSE op' = Step("start", variableValues, <<>>,
                     << VapiStart(variableValues) >>, outcome = "throw")
  /\ UNCHANGED <<state, callbacks, callInProgress, nreg>>

stop_keepsFlag ==
  /\ op' = Step("stop", Undefined, <<>>,
                IF state.isConnected THEN << VapiStop >> ELSE <<>>, FALSE)
  /\ UNCHANGED <<state, callbacks, callInProgress, nreg>>

stop ==
  /\ IF state.isConnected
     THEN /\ op' = Step("stop", Undefined, <<>>, << VapiStop >>, FALSE)
          /\ state' = [state EXCEPT !.isConnected = FALSE]
     ELSE /\ op' = Step("stop", Undefined, <<>>, <<>>, FALSE)
          /\ state' = state
  /\ UNCHANGED <<callbacks, callInProgress, nreg>>

isConnected == state.isConnected

getMessages == state.messages

getTranscript == state.transcript

clearMessages_messagesOnly ==
  /\ state' = [state EXCEPT !.messages = <<>>]
  /\ op' = Step("clearMessages", Undefined, <<>>, <<>>, FALSE)
  /\ UNCHANGED <<callbacks, callInProgress, nreg>>

clearMessages ==
  /\ state' = [state EXCEPT !.messages = <<>>, !.transcript = <<>>]
  /\ op' = Step("clearMessages", Undefined, <<>>, <<>>, FALSE)
  /\ UNCHANGED <<callbacks, callInProgress, nreg>>

Register_keepFirst(name, slot, callback) ==
  /\ nreg < MaxReg
  /\ nreg' = nreg + 1
  /\ callbacks' = IF callbacks[slot] = Null
                  THEN [callbacks EXCEPT ![slot] = callback]
                  ELSE callbacks
  /\ op' = Step(name, callback, <<>>, <<>>, FALSE)
  /\ UNCHANGED <<state, callInProgress>>

\* every registration passes a function of its own, as the arrow functions
\* of a consumer are: the n-th registration passes cb<n>
NewCallback ==
  CASE nreg = 0 -> "cb1"
    [] nreg = 1 -> "cb2"
    [] OTHER    -> "cb3"

\* the eight registration operations share one shape: slot = callback
Register(name, slot, callback) ==
  /\ nreg < MaxReg
  /\ nreg' = nreg + 1
  /\ callbacks' = [callbacks EXCEPT ![slot] = callback]
  /\ op' = Step(name, callback, <<>>, <<>>, FALSE)
  /\ UNCHANGED <<state, callInProgress>>

onCallStart(callback) == Register("onCallStart", "callStartCallback", callback)

onCallEnd(callback) == Register("onCallEnd", "callEndCallback", callback)

onMessage(callback) == Register("onMessage", "messageCallback", callback)

onWorkflowStep(callback) == Register("onWorkflowStep", "workflowStepCallback", callback)

onFunctionCall(callback) == Register("onFunctionCall", "functionCallCallback", callback)

onSpeechStart(callback) == Register("onSpeechStart", "speechStartCallback", callback)

onSpeechEnd(callback) == Register("onSpeechEnd", "speechEndCallback", callback)

onError(callback) == Register("onError", "errorCallback", callback)

destroy_resetsFlag ==
  /\ op' = Step("destroy", Undefined, <<>>,
                IF state.isConnected THEN << VapiStop >> ELSE <<>>, FALSE)
  /\ state' = [isConnected |-> FALSE, messages |-> <<>>, transcript |-> <<>>]
  /\ UNCHANGED <<callbacks, callInProgress, nreg>>

destroy ==
  /\ op' = Step("destroy", Undefined, <<>>,
                IF state.isConnected THEN << VapiStop >> ELSE <<>>, FALSE)
  /\ state' = [state EXCEPT !.messages = <<>>, !.transcript = <<>>]
  /\ UNCHANGED <<callbacks, callInProgress, nreg>>

\* the (role, content) pair a transcript event carries; an event without a
\* role is the user's
Spoken(message) ==
  [role |-> OrElse(message.role, "user"), content |-> message.transcript]

\* the record of what the Vapi client delivered: a final transcript event
\* is logged when its listener has run, and the log restarts whenever
\* clearMessages() or destroy() has emptied the lists
Observe ==
  delivered' =
    IF op'.kind \in {"clearMessages", "destroy"} THEN <<>>
    ELSE IF /\ op'.kind = "message"
            /\ op'.arg.type = "transcript"
            /\ op'.arg.transcriptType = "final"
    THEN Append(delivered, Spoken(op'.arg))
    ELSE delivered

Handle ==
  \/ CallStart
  \/ CallEnd
  \/ \E message \in MessageEvents : Message(message)
  \/ SpeechStart
  \/ SpeechEnd
  \/ \E error \in Errors : Error(error)
  \/ \E variableValues \in VariableValues, outcome \in EngineStartOutcomes :
       start(variableValues, outcome)
  \/ stop
  \/ clearMessages
  \/ destroy
  \/ onCallStart(NewCallback)
  \/ onCallEnd(NewCallback)
  \/ onMessage(NewCallback)
  \/ onWorkflowStep(NewCallback)
  \/ onFunctionCall(NewCallback)
  \/ onSpeechStart(NewCallback)
  \/ onSpeechEnd(NewCallback)
  \/ onError(NewCallback)

Next == Handle /\ Observe /\ UNCHANGED agentVars /\ UNCHANGED pureVars

Spec == Init /\ [][Next]_vars

TypeOK ==
  /\ state.isConnected \in BOOLEAN
  /\ callInProgress \in BOOLEAN
  /\ Len(state.messages) <= MaxMsgs
  /\ Len(state.transcript) <= MaxMsgs
  /\ nreg \in 0..MaxReg
  /\ \A s \in CallbackSlots : callbacks[s] \in Callbacks \cup {Null, "agent"}
  /\ ui.phase \in {"initial", "mounted", "rerun", "unmounted"}
  /\ ui.callStatus \in CallStatus
  /\ ui.type \in Types \cup {Undefined}
  /\ ui.isSpeaking \in BOOLEAN
  /\ ui.workflowRef \in 0..MaxWrappers
  /\ Len(ui.messages) <= MaxMsgs
  /\ Len(wrappers) <= MaxWrappers
  /\ \A i \in 1..Len(wrappers) : wrappers[i] \in {"live", "destroyed"}
  /\ feedbacks \in 0..MaxPending
  /\ engine.starts \in 0..MaxStarts
  /\ engine.starting + engine.running + engine.rejecting <= engine.starts

\* ======================================================================
\* The Agent component (src/components/Agent.tsx).  A step is one handler
\* together with the render it causes and the effects of that render.
\* ======================================================================

\* the closures the mount effect registers on the wrapper
AgentCallback == "agent"

HomeRoute     == "/"
FeedbackRoute == "/interview/${interviewId}/feedback"

\* what createVapiWorkflow() hands the mount effect: a wrapper, or nothing
CreateOutcomes == {"ok", "null"}

\* what createFeedback can report: { success, feedbackId }
FeedbackResults ==
  { [success |-> TRUE,  feedbackId |-> "f1"],
    [success |-> TRUE,  feedbackId |-> Undefined],
    [success |-> FALSE, feedbackId |-> Undefined] }

\* the message events followed through the component: finals with and
\* without a role, a partial, a workflow step, a type nobody routes
AgentMessageEvents ==
  { Msg("transcript", "final", Undefined, "Hi", Undefined, Undefined),
    Msg("transcript", "final", "assistant", "Hello Jane", Undefined, Undefined),
    Msg("transcript", "partial", "user", "Hi", Undefined, Undefined),
    Msg("workflow-step", Undefined, Undefined, Undefined, "node1", Undefined),
    Msg("status-update", Undefined, Undefined, Undefined, Undefined, Undefined) }

\* which session of the client an error event is about
ErrorSubjects == {"starting", "running", "none"}

\* the call button is rendered unless the status is ACTIVE; the End button
\* takes its place then
CallButtonShown(u) == u.callStatus # "ACTIVE"

\* one record per step of the component: handler, its input, the React
\* state before, the router.push calls, the createFeedback calls, whether
\* handleCall's catch block ran, whether it alerted, and how many messages
\* the list held when handleCall last forwarded a start
Did(kind, arg, nav, feedback, caught, alerted) ==
  [ kind |-> kind, arg |-> arg, pre |-> ui, nav |-> nav, feedback |-> feedback,
    caught |-> caught, alerted |-> alerted,
    since |-> IF kind = "handleCall" /\ op'.calls # <<>>
              THEN Len(ui.messages) ELSE act.since ]

\* a step of the component that makes no call on the wrapper
NoWrapperCall ==
  /\ op' = Step("none", Undefined, <<>>, <<>>, FALSE)
  /\ UNCHANGED <<state, callbacks, callInProgress, nreg, delivered>>

Handler_errorFinishes(u, call) ==
  CASE call.slot = "callStartCallback"   -> [u EXCEPT !.callStatus = "ACTIVE"]
    [] call.slot \in {"callEndCallback", "errorCallback"} ->
         [u EXCEPT !.callStatus = "FINISHED"]
    [] OTHER -> u

\* the handler registered on call.slot, applied to the React state u
Handler(u, call) ==
  CASE call.slot = "callStartCallback"   -> [u EXCEPT !.callStatus = "ACTIVE"]
    [] call.slot = "callEndCallback"     -> [u EXCEPT !.callStatus = "FINISHED"]
    [] call.slot = "messageCallback"     ->
         IF call.arg.type = "transcript" /\ call.arg.transcriptType = "final"
         THEN [u EXCEPT !.messages =
                 Append(@, [ role    |-> OrElse(call.arg.role, "user"),
                             content |-> call.arg.transcript ])]
         ELSE u
    [] call.slot = "speechStartCallback" -> [u EXCEPT !.isSpeaking = TRUE]
    [] call.slot = "speechEndCallback"   -> [u EXCEPT !.isSpeaking = FALSE]
    [] call.slot = "errorCallback"       -> [u EXCEPT !.callStatus = "INACTIVE"]
    [] OTHER -> u

\* the handlers run for the callbacks one wrapper step invoked, in order
RECURSIVE Handlers(_, _)
Handlers(u, fired) ==
  IF fired = <<>> THEN u
  ELSE Handlers(Handler(u, Head(fired)), Tail(fired))

\* the feedback effect runs after the first render and the render of a type
\* change, and after a render that changed messages or callStatus
FeedbackEffectRuns(u) ==
  \/ ui.phase # "mounted"
  \/ u.messages # ui.messages
  \/ u.callStatus # ui.callStatus

\* setLastMessage(messages[messages.length - 1].content)
WithLastMessage(u) ==
  IF Len(u.messages) > 0
  THEN [u EXCEPT !.lastMessage = u.messages[Len(u.messages)].content]
  ELSE u

\* router.push("/") of the feedback effect
EffectNav_always(u) ==
  IF u.callStatus = "FINISHED" THEN << HomeRoute >> ELSE <<>>

EffectNav(u) ==
  IF u.callStatus = "FINISHED" /\ u.type = "generate"
  THEN << HomeRoute >> ELSE <<>>

\* createFeedback({ ..., transcript: messages, ... }) of the feedback effect
EffectFeedback(u) ==
  IF u.callStatus = "FINISHED" /\ u.type # "generate"
  THEN << [transcript |-> u.messages] >> ELSE <<>>

\* the render a handler causes, with the feedback effect when it is due
Commit(kind, arg, u, caught, alerted) ==
  IF FeedbackEffectRuns(u)
  THEN /\ ui' = WithLastMessage(u)
       /\ feedbacks + Len(EffectFeedback(u)) <= MaxPending
       /\ feedbacks' = feedbacks + Len(EffectFeedback(u))
       /\ act' = Did(kind, arg, EffectNav(u), EffectFeedback(u), caught, alerted)
  ELSE /\ ui' = u
       /\ feedbacks' = feedbacks
       /\ act' = Did(kind, arg, <<>>, <<>>, caught, alerted)

\* ---- mount effect (deps [type]) and its cleanup ----

\* the effect body: create the wrapper and register the handlers; without
\* a wrapper it returns early and registers no cleanup
Setup(type, outcome) ==
  /\ ui.phase \in {"initial", "rerun"}
  /\ ui.phase = "rerun" => type = ui.type
  /\ IF outcome = "ok"
     THEN /\ Len(wrappers) < MaxWrappers
          /\ wrappers' = Append(wrappers, "live")
          /\ state' = [isConnected |-> FALSE, messages |-> <<>>, transcript |-> <<>>]
          /\ callbacks' = [s \in CallbackSlots |-> AgentCallback]
          /\ callInProgress' = FALSE
          /\ op' = Step("create", Undefined, <<>>, <<>>, FALSE)
          /\ UNCHANGED nreg
          /\ Observe
          /\ engine' = IdleEngine
          /\ Commit("setup", outcome,
                    [ui EXCEPT !.phase = "mounted", !.type = type,
                               !.workflowRef = Len(wrappers) + 1,
                               !.cleanup = TRUE],
                    FALSE, FALSE)
     ELSE /\ NoWrapperCall
          /\ UNCHANGED <<wrappers, engine>>
          /\ Commit("setup", outcome,
                    [ui EXCEPT !.phase = "mounted", !.type = type,
                               !.workflowRef = NoRef, !.cleanup = FALSE],
                    FALSE, FALSE)

Cleanup_unmountOnly(kind, phase, type) ==
  /\ IF ui.cleanup /\ ui.workflowRef # NoRef /\ phase = "unmounted"
     THEN /\ destroy
          /\ Observe
          /\ wrappers' = [wrappers EXCEPT ![ui.workflowRef] = "destroyed"]
     ELSE /\ NoWrapperCall
          /\ UNCHANGED wrappers
  /\ ui' = [ui EXCEPT !.phase = phase, !.type = type]
  /\ act' = Did(kind, type, <<>>, <<>>, FALSE, FALSE)
  /\ UNCHANGED <<engine, feedbacks>>

\* the cleanup the effect returned, run by React before the effect runs
\* again and when the component unmounts
Cleanup(kind, phase, type) ==
  /\ IF ui.cleanup /\ ui.workflowRef # NoRef
     THEN /\ destroy
          /\ Observe
          /\ wrappers' = [wrappers EXCEPT ![ui.workflowRef] = "destroyed"]
     ELSE /\ NoWrapperCall
          /\ UNCHANGED wrappers
  /\ ui' = [ui EXCEPT !.phase = phase, !.type = type]
  /\ act' = Did(kind, type, <<>>, <<>>, FALSE, FALSE)
  /\ UNCHANGED <<engine, feedbacks>>

\* the parent renders the component with another type
TypeChange(type) ==
  /\ ui.phase = "mounted"
  /\ type # ui.type
  /\ Len(wrappers) < MaxWrappers
  /\ Cleanup("typeChange", "rerun", type)

Unmount ==
  /\ ui.phase = "mounted"
  /\ Cleanup("unmount", "unmounted", ui.type)

\* ---- SDK events reaching the handlers of the current wrapper ----

Listening == ui.phase = "mounted" /\ ui.workflowRef # NoRef

OnCallStart ==
  /\ Listening
  /\ engine.starting > 0
  /\ CallStart
  /\ Observe
  /\ engine' = [engine EXCEPT !.starting = @ - 1, !.running = @ + 1]
  /\ Commit("call-start", Undefined, Handlers(ui, op'.fired), FALSE, FALSE)
  /\ UNCHANGED wrappers

OnCallEnd ==
  /\ Listening
  /\ engine.running > 0
  /\ CallEnd
  /\ Observe
  /\ engine' = [engine EXCEPT !.running = @ - 1]
  /\ Commit("call-end", Undefined, Handlers(ui, op'.fired), FALSE, FALSE)
  /\ UNCHANGED wrappers

OnMessage(message) ==
  /\ Listening
  /\ engine.running > 0
  /\ IsFinalTranscript(message) => Len(ui.messages) < MaxMsgs
  /\ Message(message)
  /\ Observe
  /\ Commit("message", message, Handlers(ui, op'.fired), FALSE, FALSE)
  /\ UNCHANGED <<wrappers, engine>>

OnSpeechStart ==
  /\ Listening
  /\ engine.running > 0
  /\ SpeechStart
  /\ Observe
  /\ Commit("speech-start", Undefined, Handlers(ui, op'.fired), FALSE, FALSE)
  /\ UNCHANGED <<wrappers, engine>>

OnSpeechEnd ==
  /\ Listening
  /\ engine.running > 0
  /\ SpeechEnd
  /\ Observe
  /\ Commit("speech-end", Undefined, Handlers(ui, op'.fired), FALSE, FALSE)
  /\ UNCHANGED <<wrappers, engine>>

\* an error event: about a session still starting, about a running call,
\* or about neither
OnError(error, subject) ==
  /\ Listening
  /\ subject = "starting" => engine.starting > 0
  /\ subject = "running" => engine.running > 0
  /\ Error(error)
  /\ Observe
  /\ engine' = IF subject = "starting" THEN [engine EXCEPT !.starting = @ - 1]
               ELSE IF subject = "running" THEN [engine EXCEPT !.running = @ - 1]
               ELSE engine
  /\ Commit("error", error, Handlers(ui, op'.fired), FALSE, FALSE)
  /\ UNCHANGED wrappers

\* ---- the user's handlers ----

\* what vapi.start does to the client: a session to be answered, nothing
\* after a throw, a promise still to be rejected
Started(outcome) ==
  [engine EXCEPT !.starts = @ + 1,
                 !.starting = IF outcome = "ok" THEN @ + 1 ELSE @,
                 !.rejecting = IF outcome = "reject" THEN @ + 1 ELSE @]

HandleCall_unguarded(outcome) ==
  /\ ui.phase = "mounted"
  /\ IF ui.workflowRef = NoRef
     THEN /\ NoWrapperCall
          /\ UNCHANGED engine
          /\ Commit("handleCall", outcome, ui, FALSE, TRUE)
     ELSE /\ engine.starts < MaxStarts
          /\ start("vars", outcome)
          /\ Observe
          /\ engine' = IF op'.calls = <<>> THEN engine ELSE Started(outcome)
          /\ Commit("handleCall", outcome,
                    [ui EXCEPT !.callStatus =
                       IF op'.raised THEN "INACTIVE" ELSE "CONNECTING"],
                    op'.raised, op'.raised)
  /\ UNCHANGED wrappers

HandleCall_onceWhileConnecting(outcome) ==
  /\ ui.phase = "mounted"
  /\ IF ui.workflowRef = NoRef
     THEN /\ NoWrapperCall
          /\ UNCHANGED engine
          /\ Commit("handleCall", outcome, ui, FALSE, TRUE)
     ELSE IF isConnected \/ ui.callStatus = "CONNECTING"
     THEN /\ NoWrapperCall
          /\ UNCHANGED engine
          /\ Commit("handleCall", outcome, ui, FALSE, FALSE)
     ELSE /\ engine.starts < MaxStarts
          /\ start("vars", outcome)
          /\ Observe
          /\ engine' = Started(outcome)
          /\ Commit("handleCall", outcome,
                    [ui EXCEPT !.callStatus =
                       IF op'.raised THEN "INACTIVE" ELSE "CONNECTING"],
                    op'.raised, op'.raised)
  /\ UNCHANGED wrappers

\* handleCall: setCallStatus(CONNECTING), then start(variableValues) inside
\* try / catch; start is not awaited, so only a throw reaches the catch
HandleCall(outcome) ==
  /\ ui.phase = "mounted"
  /\ IF ui.workflowRef = NoRef
     THEN /\ NoWrapperCall
          /\ UNCHANGED engine
          /\ Commit("handleCall", outcome, ui, FALSE, TRUE)
     ELSE IF isConnected
     THEN /\ NoWrapperCall
          /\ UNCHANGED engine
          /\ Commit("handleCall", outcome, ui, FALSE, FALSE)
     ELSE /\ engine.starts < MaxStarts
          /\ start("vars", outcome)
          /\ Observe
          /\ engine' = Started(outcome)
          /\ Commit("handleCall", outcome,
                    [ui EXCEPT !.callStatus =
                       IF op'.raised THEN "INACTIVE" ELSE "CONNECTING"],
                    op'.raised, op'.raised)
  /\ UNCHANGED wrappers

\* the promise of a failed vapi.start rejects: nothing is attached to it
StartRejected ==
  /\ engine.rejecting > 0
  /\ engine' = [engine EXCEPT !.rejecting = @ - 1]
  /\ NoWrapperCall
  /\ act' = Did("startRejected", Undefined, <<>>, <<>>, FALSE, FALSE)
  /\ UNCHANGED <<ui, wrappers, feedbacks>>

HandleDisconnect_unguarded ==
  /\ ui.phase = "mounted"
  /\ ui.workflowRef # NoRef
  /\ op' = Step("stop", Undefined, <<>>, << VapiStop >>, FALSE)
  /\ state' = [state EXCEPT !.isConnected = FALSE]
  /\ UNCHANGED <<callbacks, callInProgress, nreg>>
  /\ Observe
  /\ Commit("handleDisconnect", Undefined,
            [ui EXCEPT !.callStatus = "FINISHED"], FALSE, FALSE)
  /\ UNCHANGED <<wrappers, engine>>

\* handleDisconnect: stop() and FINISHED, only when the wrapper is connected
HandleDisconnect ==
  /\ ui.phase = "mounted"
  /\ IF ui.workflowRef # NoRef /\ isConnected
     THEN /\ stop
          /\ Observe
          /\ Commit("handleDisconnect", Undefined,
                    [ui EXCEPT !.callStatus = "FINISHED"], FALSE, FALSE)
     ELSE /\ NoWrapperCall
          /\ Commit("handleDisconnect", Undefined, ui, FALSE, FALSE)
  /\ UNCHANGED <<wrappers, engine>>

\* where handleGenerateFeedback navigates once createFeedback has answered
FeedbackNav(result) ==
  IF result.success /\ result.feedbackId # Undefined
  THEN << FeedbackRoute >> ELSE << HomeRoute >>

\* a pending createFeedback call returns
FeedbackResolved(result) ==
  /\ feedbacks > 0
  /\ feedbacks' = feedbacks - 1
  /\ NoWrapperCall
  /\ act' = Did("feedbackResult", result, FeedbackNav(result), <<>>, FALSE, FALSE)
  /\ UNCHANGED <<ui, wrappers, engine>>

\* one interview: the component is mounted once, used, and unmounted
AgentNext ==
  /\ \/ \E type \in Types, outcome \in CreateOutcomes : Setup(type, outcome)
     \/ Unmount
     \/ OnCallStart
     \/ OnCallEnd
     \/ \E message \in AgentMessageEvents : OnMessage(message)
     \/ OnSpeechStart
     \/ OnSpeechEnd
     \/ \E error \in Errors, subject \in ErrorSubjects : OnError(error, subject)
     \/ \E outcome \in EngineStartOutcomes : HandleCall(outcome)
     \/ StartRejected
     \/ HandleDisconnect
     \/ \E result \in FeedbackResults : FeedbackResolved(result)
  /\ UNCHANGED pureVars

SpecAgent == Init /\ [][AgentNext]_vars

\* the lifetime of the component: mounts, type changes and unmounts around
\* calls that carry no transcript
LifecycleNext ==
  /\ \/ \E type \in Types, outcome \in CreateOutcomes : Setup(type, outcome)
     \/ \E type \in Types : TypeChange(type)
     \/ Unmount
     \/ OnCallStart
     \/ OnCallEnd
     \/ OnSpeechStart
     \/ OnSpeechEnd
     \/ \E error \in Errors, subject \in ErrorSubjects : OnError(error, subject)
     \/ \E outcome \in EngineStartOutcomes : HandleCall(outcome)
     \/ StartRejected
     \/ HandleDisconnect
     \/ \E result \in FeedbackResults : FeedbackResolved(result)
  /\ UNCHANGED pureVars

SpecLifecycle == Init /\ [][LifecycleNext]_vars

\* ======================================================================
\* The variables handleCall hands to start (Agent.tsx:177-198), as a
\* function of the props.
\* ======================================================================

\* a || b of the source for strings: b when a is missing or empty
OrDefault(a, b) == IF a \in {Undefined, ""} THEN b ELSE a

\* parts.join(separator)
RECURSIVE join(_, _)
join(parts, separator) ==
  IF parts = <<>> THEN ""
  ELSE IF Len(parts) = 1 THEN parts[1]
  ELSE parts[1] \o separator \o join(Tail(parts), separator)

formattedQuestions_zeroBased(questions) ==
  join([i \in 1..Len(questions) |->
          LET index == i - 1 IN ToString(index) \o ". " \o questions[i]],
       "\n")

formattedQuestions_lastFirst(questions) ==
  join([i \in 1..Len(questions) |->
          LET index == i - 1
          IN ToString(index + 1) \o ". " \o questions[Len(questions) - index]],
       "\n")

\* questions.map((question, index) => `${index + 1}. ${question}`).join("\n")
formattedQuestions(questions) ==
  join([i \in 1..Len(questions) |->
          LET index == i - 1 IN ToString(index + 1) \o ". " \o questions[i]],
       "\n")

BuildVariableValues_always(p) ==
  [ username |-> OrDefault(p.userName, "Candidate"),
    userid   |-> OrDefault(p.userId, "unknown"),
    questions |-> IF p.questions = Missing THEN ""
                  ELSE formattedQuestions(p.questions[1]) ]

\* variableValues as handleCall builds it: username and userid always, the
\* questions entry under the condition of the if
BuildVariableValues(p) ==
  IF p.type # "generate" /\ p.questions # Missing /\ Len(p.questions[1]) > 0
  THEN [ username |-> OrDefault(p.userName, "Candidate"),
         userid   |-> OrDefault(p.userId, "unknown"),
         questions |-> formattedQuestions(p.questions[1]) ]
  ELSE [ username |-> OrDefault(p.userName, "Candidate"),
         userid   |-> OrDefault(p.userId, "unknown") ]

\* the props a parent may render the component with next: one prop changed
Rerenders(p) ==
  { [p EXCEPT !.userName = n] : n \in Names } \cup
  { [p EXCEPT !.userId = u] : u \in UserIds } \cup
  { [p EXCEPT !.type = t] : t \in Types } \cup
  { [p EXCEPT !.questions = q] :
      q \in {Missing} \cup { Given(list) : list \in QuestionLists } }

\* the component is rendered with other props
Render(p) ==
  /\ p # props
  /\ props' = p
  /\ UNCHANGED handed

\* handleCall builds the variables from the props of the current render and
\* hands them to start
HandleCallVariables ==
  /\ handed' = << [props |-> props, variableValues |-> BuildVariableValues(props)] >>
  /\ UNCHANGED props

InitVariables ==
  /\ Constructed
  /\ props \in AgentProps
  /\ handed = <<>>
  /\ tk = IdleToken(Undefined)
  /\ auth = IdleAuth(0)

VariablesNext ==
  /\ \/ \E p \in Rerenders(props) : Render(p)
     \/ HandleCallVariables
  /\ UNCHANGED <<state, callbacks, callInProgress, op, nreg, delivered>>
  /\ UNCHANGED agentVars
  /\ UNCHANGED <<tk, auth>>

SpecVariables == InitVariables /\ [][VariablesNext]_vars

\* ======================================================================
\* The session token: getVapiSessionToken (src/unnamed/part_003:13-34)
\* posts the user id to the token endpoint (src/unnamed/part_005:107-147),
\* which asks the provider for a token.
\* ======================================================================

\* response.ok
Ok(response) == response.status \in 200..299

\* the catch block of the endpoint
InternalServerError ==
  HttpResponse(500, TRUE, FALSE, Undefined, "Internal server error")

POST_successWithStatus(request, provider) ==
  IF ~request.valid THEN InternalServerError
  ELSE IF request.userId \in {Undefined, ""}
  THEN HttpResponse(400, TRUE, FALSE, Undefined, "userId is required")
  ELSE IF provider.failed THEN InternalServerError
  ELSE IF provider.json
  THEN HttpResponse(provider.status, TRUE, TRUE, provider.token, Undefined)
  ELSE InternalServerError

\* the response of POST: request.json(), the userId test, the provider's
\* answer; whatever throws inside the try block ends in the catch block
POST(request, provider) ==
  IF ~request.valid THEN InternalServerError
  ELSE IF request.userId \in {Undefined, ""}
  THEN HttpResponse(400, TRUE, FALSE, Undefined, "userId is required")
  ELSE IF provider.failed THEN InternalServerError
  ELSE IF ~Ok(provider)
  THEN HttpResponse(provider.status, TRUE, FALSE, Undefined, "Failed to generate token")
  ELSE IF ~provider.json THEN InternalServerError
  ELSE HttpResponse(200, TRUE, TRUE, provider.token, Undefined)

ProviderCalls_always(request) ==
  << [url |-> "https://api.vapi.ai/auth/token", userId |-> request.userId] >>

\* the requests POST makes to the provider
ProviderCalls(request) ==
  IF request.valid /\ request.userId \notin {Undefined, ""}
  THEN << [url |-> "https://api.vapi.ai/auth/token", userId |-> request.userId] >>
  ELSE <<>>

\* what reaches the helper: the endpoint's response, or the answer of a
\* gateway in front of it
Deliveries == {"intact", "badGateway", "garbled"}

Received(response, delivery) ==
  CASE delivery = "intact"     -> response
    [] delivery = "badGateway" -> HttpResponse(502, FALSE, FALSE, Undefined, Undefined)
    [] delivery = "garbled"    -> HttpResponse(200, FALSE, FALSE, Undefined, Undefined)

Settled_noCatch(sent, received, env) ==
  IF sent /\ Ok(received) /\ received.json
  THEN [settled |-> "resolved", value |-> received.token]
  ELSE [settled |-> "rejected", value |-> "Failed to get session token"]

Settled_noFallback(sent, received, env) ==
  IF sent /\ Ok(received) /\ received.json
  THEN [settled |-> "resolved", value |-> received.token]
  ELSE [settled |-> "resolved", value |-> ""]

\* how the promise of getVapiSessionToken settles: data.token of an OK
\* response; from the catch block the public token || ""
Settled(sent, received, env) ==
  IF sent /\ Ok(received) /\ received.json
  THEN [settled |-> "resolved", value |-> received.token]
  ELSE [settled |-> "resolved", value |-> OrDefault(env, "")]

\* getVapiSessionToken(userId) up to its fetch: the request leaves, or fetch
\* fails and the catch block answers
GetVapiSessionToken(userId, sent) ==
  /\ tk.pc = "idle"
  /\ tk' = IF sent
           THEN [tk EXCEPT !.pc = "requested", !.caller = "helper", !.sent = TRUE,
                           !.request = [valid |-> TRUE, userId |-> userId]]
           ELSE [tk EXCEPT !.pc = "done", !.caller = "helper",
                           !.request = [valid |-> TRUE, userId |-> userId],
                           !.result = Settled(FALSE, NoResponse, tk.env)]

\* another client posts a body of its own to the endpoint
DirectPost(request) ==
  /\ tk.pc = "idle"
  /\ tk' = [tk EXCEPT !.pc = "requested", !.caller = "other", !.sent = TRUE,
                      !.request = request]

\* the endpoint handles the request
Respond(provider) ==
  /\ tk.pc = "requested"
  /\ tk' = [tk EXCEPT !.pc = "answered",
                      !.provider = IF ProviderCalls(tk.request) = <<>>
                                   THEN NoProvider ELSE provider,
                      !.providerCalls = ProviderCalls(tk.request),
                      !.response = POST(tk.request, provider)]

\* getVapiSessionToken after its fetch: response.ok, response.json(), return
Resolve(delivery) ==
  /\ tk.pc = "answered"
  /\ tk.caller = "helper"
  /\ tk' = [tk EXCEPT !.pc = "done",
                      !.received = Received(tk.response, delivery),
                      !.result = Settled(TRUE, Received(tk.response, delivery), tk.env)]

\* the next request
Again ==
  /\ tk.pc = "done" \/ (tk.pc = "answered" /\ tk.caller = "other")
  /\ tk' = IdleToken(tk.env)

InitToken ==
  /\ Constructed
  /\ props = NoProps
  /\ handed = <<>>
  /\ \E env \in PublicTokens : tk = IdleToken(env)
  /\ auth = IdleAuth(0)

TokenNext ==
  /\ \/ \E userId \in TokenUserIds, sent \in BOOLEAN : GetVapiSessionToken(userId, sent)
     \/ \E request \in TokenRequests : DirectPost(request)
     \/ \E provider \in ProviderOutcomes : Respond(provider)
     \/ \E delivery \in Deliveries : Resolve(delivery)
     \/ Again
  /\ UNCHANGED <<state, callbacks, callInProgress, op, nreg, delivered>>
  /\ UNCHANGED agentVars
  /\ UNCHANGED <<props, handed, auth>>

SpecToken == InitToken /\ [][TokenNext]_vars

\* ======================================================================
\* safeAuth (src/firebase/admin.ts:23-47): getUserByEmail and getUser
\* around the lookups of the Admin SDK.
\* ======================================================================

SafeLookup_notFoundOnly(outcome) ==
  IF outcome.error = NoError
  THEN [settled |-> "user", user |-> outcome.user, error |-> NoError]
  ELSE IF outcome.error.code = "auth/user-not-found"
  THEN [settled |-> "null", user |-> NoUser, error |-> NoError]
  ELSE [settled |-> "rejected", user |-> NoUser, error |-> outcome.error]

\* the body shared by both wrappers: the user of a lookup that succeeds;
\* from the catch block null when err.code is "auth/user-not-found" or
\* err.codePrefix is "auth", otherwise the error thrown again
SafeLookup(outcome) ==
  IF outcome.error = NoError
  THEN [settled |-> "user", user |-> outcome.user, error |-> NoError]
  ELSE IF \/ outcome.error.code = "auth/user-not-found"
          \/ outcome.error.codePrefix = "auth"
  THEN [settled |-> "null", user |-> NoUser, error |-> NoError]
  ELSE [settled |-> "rejected", user |-> NoUser, error |-> outcome.error]

\* safeAuth.getUserByEmail(email) / safeAuth.getUser(uid) up to the await
SafeAuthCall(method, key) ==
  /\ auth.pc = "idle"
  /\ auth.made < MaxLookups
  /\ auth' = [auth EXCEPT !.pc = "awaiting", !.method = method, !.key = key,
                          !.made = @ + 1]

\* the lookup settles and the wrapper returns or throws
SafeAuthSettle(outcome) ==
  /\ auth.pc = "awaiting"
  /\ auth' = [auth EXCEPT !.pc = "done", !.outcome = outcome,
                          !.result = SafeLookup(outcome)]

\* the caller goes on to its next lookup
SafeAuthNext ==
  /\ auth.pc = "done"
  /\ auth' = IdleAuth(auth.made)

AuthNext ==
  /\ \/ \E method \in AuthMethods, key \in LookupKeys : SafeAuthCall(method, key)
     \/ \E outcome \in LookupOutcomes : SafeAuthSettle(outcome)
     \/ SafeAuthNext
  /\ UNCHANGED <<state, callbacks, callInProgress, op, nreg, delivered>>
  /\ UNCHANGED agentVars
  /\ UNCHANGED <<props, handed, tk>>

SpecAuth == Init /\ [][AuthNext]_vars

\* ======================================================================
\* Properties.  op.pre is the wrapper when the last step began, so each
\* formula relates the state a step started from to the state it left.
\* ======================================================================

IsPrefix(s, t) == Len(s) <= Len(t) /\ SubSeq(t, 1, Len(s)) = s

Last(s) == s[Len(s)]

\* the single invocation an event owes to the callback held by a slot
Latest(cbs, slot, arg) ==
  IF cbs[slot] = Null THEN <<>> ELSE << Call(slot, cbs[slot], arg) >>

\* two sequences of invocations are the same: same slots, same callbacks,
\* same arguments, in the same order
SameCalls(f, g) ==
  /\ Len(f) = Len(g)
  /\ \A i \in 1..Len(f) :
       /\ f[i].slot = g[i].slot
       /\ f[i].cb = g[i].cb
       /\ f[i].arg = g[i].arg

IsMessageStep(o, types) == o.kind = "message" /\ o.arg.type \in types

\* C1 (as stated): isConnected() goes from false to true only in a step that
\* handles call-start, and from true to false only in a step that handles
\* call-end or error; no other operation changes the flag.
C1_Original ==
  /\ (~op.pre.state.isConnected /\ isConnected) => op.kind = "call-start"
  /\ (op.pre.state.isConnected /\ ~isConnected) => op.kind \in {"call-end", "error"}

\* C1 (amended): isConnected() goes from false to true only in a call-start
\* step, and from true to false only in a call-end step, an error step or a
\* stop() made while connected; every other operation, destroy() included,
\* leaves the flag as it was.
C1_FlagTransitions ==
  /\ (~op.pre.state.isConnected /\ isConnected) => op.kind = "call-start"
  /\ (op.pre.state.isConnected /\ ~isConnected) =>
        op.kind \in {"call-end", "error", "stop"}

C1_Witness ==
  /\ op.kind = "stop"
  /\ op.pre.state.isConnected
  /\ ~isConnected

\* C2: start(variables) called while isConnected() is true never reaches
\* vapi.start, raises no error and leaves isConnected, messages and
\* transcript unchanged.
C2_StartWhileConnected ==
  (op.kind = "start" /\ op.pre.state.isConnected) =>
     /\ op.calls = <<>>
     /\ ~op.raised
     /\ op.fired = <<>>
     /\ state = op.pre.state

C2_Witness ==
  /\ op.kind = "start"
  /\ op.pre.state.isConnected
  /\ op.calls = <<>>
  /\ Len(state.messages) > 0

\* C3: a message event of type "transcript" whose transcriptType is not
\* "final" appends nothing, invokes no callback and leaves the whole wrapper
\* state unchanged.
C3_PartialDropped ==
  (IsMessageStep(op, {"transcript"}) /\ op.arg.transcriptType # "final") =>
     /\ state = op.pre.state
     /\ callbacks = op.pre.callbacks
     /\ op.fired = <<>>
     /\ op.calls = <<>>

C3_Witness ==
  /\ IsMessageStep(op, {"transcript"})
  /\ op.arg.transcriptType = "partial"
  /\ callbacks["messageCallback"] # Null
  /\ Len(state.messages) = 1

\* C4: a final transcript message event with role r and text t appends
\* exactly one entry {role r, content t} at the end of messages and of
\* transcript (the transcript entry timestamped) and invokes the registered
\* generic message callback exactly once.
C4_FinalAppended ==
  ( /\ IsMessageStep(op, {"transcript"})
    /\ op.arg.transcriptType = "final"
    /\ op.arg.role # Undefined ) =>
     /\ Len(state.messages) = Len(op.pre.state.messages) + 1
     /\ IsPrefix(op.pre.state.messages, state.messages)
     /\ Last(state.messages).role = op.arg.role
     /\ Last(state.messages).content = op.arg.transcript
     /\ Len(state.transcript) = Len(op.pre.state.transcript) + 1
     /\ IsPrefix(op.pre.state.transcript, state.transcript)
     /\ Last(state.transcript).role = op.arg.role
     /\ Last(state.transcript).content = op.arg.transcript
     /\ Last(state.transcript).timestamp \in Timestamps
     /\ SameCalls(op.fired, Latest(op.pre.callbacks, "messageCallback", op.arg))
     /\ isConnected = op.pre.state.isConnected

C4_Witness ==
  /\ IsMessageStep(op, {"transcript"})
  /\ op.arg.transcriptType = "final"
  /\ op.arg.role = "assistant"
  /\ Len(state.messages) = 2
  /\ Len(state.transcript) = 2
  /\ Len(op.fired) = 1

\* C5: clearMessages() makes getMessages() and getTranscript() empty, keeps
\* isConnected(), invokes no callback and makes no call on the engine.
C5_ClearMessages ==
  op.kind = "clearMessages" =>
     /\ getMessages = <<>>
     /\ getTranscript = <<>>
     /\ isConnected = op.pre.state.isConnected
     /\ callbacks = op.pre.callbacks
     /\ op.fired = <<>>
     /\ op.calls = <<>>

C5_Witness ==
  /\ op.kind = "clearMessages"
  /\ Len(op.pre.state.messages) = MaxMsgs
  /\ Len(op.pre.state.transcript) = MaxMsgs
  /\ isConnected
  /\ getMessages = <<>>
  /\ callbacks["messageCallback"] # Null

\* C6 (as stated): after destroy() has been called twice in succession, no
\* error was raised and isConnected() is false as soon as the second call
\* returns.
C6_Original ==
  (op.kind = "destroy" /\ op.prev.kind = "destroy") =>
     (~op.raised /\ ~isConnected)

\* C7 (as stated): while a call is in progress every step leaves the previous
\* messages and transcript lists as prefixes of the new ones.
C7_Original ==
  op.pre.callInProgress =>
     /\ IsPrefix(op.pre.state.messages, state.messages)
     /\ IsPrefix(op.pre.state.transcript, state.transcript)

\* C7 (amended): every SDK event and every start(), stop() and registration
\* leaves the previous messages and transcript lists as prefixes of the new
\* ones; only clearMessages() and destroy() shorten them, and they empty both
\* lists whether or not a call is in progress.
C7_AppendOnly ==
  /\ op.kind \notin {"clearMessages", "destroy"} =>
       /\ IsPrefix(op.pre.state.messages, state.messages)
       /\ IsPrefix(op.pre.state.transcript, state.transcript)
  /\ op.kind \in {"clearMessages", "destroy"} =>
       /\ state.messages = <<>>
       /\ state.transcript = <<>>

C7_Witness ==
  /\ op.kind = "clearMessages"
  /\ op.pre.callInProgress
  /\ callInProgress
  /\ Len(op.pre.state.messages) > 0
  /\ state.messages = <<>>

\* the slot each registration operation writes, and the slot each plain
\* event fires
RegSlot ==
  [ onCallStart    |-> "callStartCallback",
    onCallEnd      |-> "callEndCallback",
    onMessage      |-> "messageCallback",
    onWorkflowStep |-> "workflowStepCallback",
    onFunctionCall |-> "functionCallCallback",
    onSpeechStart  |-> "speechStartCallback",
    onSpeechEnd    |-> "speechEndCallback",
    onError        |-> "errorCallback" ]

EventSlot ==
  [ k \in {"call-start", "call-end", "speech-start", "speech-end", "error"} |->
      CASE k = "call-start"   -> "callStartCallback"
        [] k = "call-end"     -> "callEndCallback"
        [] k = "speech-start" -> "speechStartCallback"
        [] k = "speech-end"   -> "speechEndCallback"
        [] k = "error"        -> "errorCallback" ]

\* the slots a message event of a routed type owes an invocation
MessageSlots(message) ==
  IF message.type = "transcript" /\ message.transcriptType = "final"
  THEN {"messageCallback"}
  ELSE IF message.type = "workflow-step"
  THEN {"workflowStepCallback", "messageCallback"}
  ELSE IF message.type = "function-call"
  THEN {"functionCallCallback", "messageCallback"}
  ELSE {}

\* C8: each registration overwrites its slot and no other; an SDK event
\* invokes, for each slot of its kind, only the callback registered last on
\* that slot, exactly once, and never an earlier registration; call-start
\* also sets isConnected() to true.
C8_LatestRegistrationFires ==
  /\ op.kind \in DOMAIN RegSlot =>
       callbacks = [op.pre.callbacks EXCEPT ![RegSlot[op.kind]] = op.arg]
  /\ op.kind \notin DOMAIN RegSlot => callbacks = op.pre.callbacks
  /\ op.kind \in DOMAIN EventSlot =>
       SameCalls(op.fired, Latest(callbacks, EventSlot[op.kind], op.arg))
  /\ op.kind = "message" =>
       /\ \A i \in 1..Len(op.fired) :
            /\ op.fired[i].cb = callbacks[op.fired[i].slot]
            /\ \A j \in 1..Len(op.fired) :
                 op.fired[i].slot = op.fired[j].slot => i = j
       /\ {op.fired[i].slot : i \in 1..Len(op.fired)}
            = {s \in MessageSlots(op.arg) : callbacks[s] # Null}
  /\ op.kind = "call-start" => isConnected

C8_Witness ==
  /\ op.kind = "call-start"
  /\ nreg = 2
  /\ \A s \in CallbackSlots \ {"callStartCallback"} : callbacks[s] = Null
  /\ SameCalls(op.fired, << Call("callStartCallback", "cb2", Undefined) >>)
  /\ isConnected

\* C9: a "workflow-step" (respectively "function-call") message event invokes
\* the registered workflow-step (respectively function-call) callback and the
\* registered generic message callback, each exactly once, and appends
\* nothing to messages or transcript.
C9_SpecializedAndGeneric ==
  IsMessageStep(op, {"workflow-step", "function-call"}) =>
     /\ state = op.pre.state
     /\ SameCalls(op.fired,
          (IF op.arg.type = "workflow-step"
           THEN Latest(op.pre.callbacks, "workflowStepCallback", op.arg.step)
           ELSE Latest(op.pre.callbacks, "functionCallCallback", op.arg.functionCall))
          \o Latest(op.pre.callbacks, "messageCallback", op.arg))

C9_Witness ==
  /\ IsMessageStep(op, {"workflow-step"})
  /\ Len(op.fired) = 2
  /\ op.fired[1].slot = "workflowStepCallback"
  /\ op.fired[2].slot = "messageCallback"

\* C10: stop() requests termination on the engine exactly when isConnected()
\* is true; when not connected it calls nothing and changes nothing; two
\* stop() calls in succession request termination at most once.
C10_StopIdempotent ==
  op.kind = "stop" =>
     /\ op.pre.state.isConnected => op.calls = << VapiStop >>
     /\ ~op.pre.state.isConnected =>
          /\ op.calls = <<>>
          /\ state = op.pre.state
          /\ callbacks = op.pre.callbacks
     /\ op.prev.kind = "stop" => Len(op.prev.calls) + Len(op.calls) <= 1

C10_Witness ==
  /\ op.kind = "stop"
  /\ op.prev.kind = "stop"
  /\ Len(op.prev.calls) = 1
  /\ op.calls = <<>>
  /\ ~isConnected

\* C11: every error event invokes the error callback registered at that
\* moment exactly once, with that error, and isConnected() is false
\* afterwards whatever it was before.
C11_ErrorReported ==
  op.kind = "error" =>
     /\ SameCalls(op.fired, Latest(op.pre.callbacks, "errorCallback", op.arg))
     /\ op.pre.callbacks["errorCallback"] # Null => Len(op.fired) = 1
     /\ ~isConnected
     /\ op.calls = <<>>

C11_Witness ==
  /\ op.kind = "error"
  /\ op.arg = "E2"
  /\ op.pre.state.isConnected
  /\ ~isConnected
  /\ SameCalls(op.fired, << Call("errorCallback", "cb1", "E2") >>)

\* the (role, content) pairs of a list of entries, in order
RoleContent(list) ==
  [i \in 1..Len(list) |-> [role |-> list[i].role, content |-> list[i].content]]

\* C18: at every point the (role, content) sequence of getTranscript() and
\* of getMessages() is, in arrival order, the sequence of final transcript
\* events delivered since the lists were last emptied: nothing is
\* reordered, merged or dropped.
C18_TranscriptOrder ==
  /\ RoleContent(getTranscript) = delivered
  /\ RoleContent(getMessages) = delivered

C18_Witness ==
  /\ op.kind = "call-end"
  /\ delivered = << [role |-> "user", content |-> "Hi"],
                    [role |-> "assistant", content |-> "Hello Jane"] >>
  /\ RoleContent(getTranscript) = delivered
  /\ RoleContent(getMessages) = delivered

\* C19: the wrapper calls the engine only inside explicit operations:
\* vapi.start only within a start() step and at most once per start(),
\* vapi.stop only within a stop() or destroy() step and at most once per
\* step; no SDK event handler and no other operation calls the engine.
C19_EngineCallsOnlyInOperations ==
  /\ op.kind \notin {"start", "stop", "destroy"} => op.calls = <<>>
  /\ op.kind = "start" =>
       /\ Len(op.calls) <= 1
       /\ \A i \in 1..Len(op.calls) : op.calls[i].fn = "start"
  /\ op.kind \in {"stop", "destroy"} =>
       /\ Len(op.calls) <= 1
       /\ \A i \in 1..Len(op.calls) : op.calls[i].fn = "stop"

C19_Witness ==
  /\ op.kind = "error"
  /\ op.pre.state.isConnected
  /\ op.pre.callInProgress
  /\ op.calls = <<>>
  /\ Len(op.fired) = 1
\* C28: in every state of the wrapper the messages list and the transcript
\* list have the same length and the same (role, content) at every index.
C28_ListsAgree ==
  /\ Len(getMessages) = Len(getTranscript)
  /\ \A i \in 1..Len(getMessages) :
       /\ getMessages[i].role = getTranscript[i].role
       /\ getMessages[i].content = getTranscript[i].content

C28_Witness ==
  /\ op.kind = "message"
  /\ Len(op.pre.state.messages) = 0
  /\ op.prev.kind = "destroy"
  /\ Len(getMessages) = 1
  /\ Len(getTranscript) = 1

\* C29 (as stated): an SDK event delivered after destroy() has returned
\* invokes no consumer callback, appends nothing to messages or transcript
\* and does not set isConnected() to true.
C29_Original ==
  (op.kind \in EventKinds /\ op.prev.kind = "destroy") =>
     /\ op.fired = <<>>
     /\ Len(state.messages) = Len(op.pre.state.messages)
     /\ Len(state.transcript) = Len(op.pre.state.transcript)
     /\ isConnected => op.pre.state.isConnected

\* C30: a message event whose type is none of "transcript", "workflow-step"
\* and "function-call", a missing type included, invokes no consumer
\* callback, makes no call on the engine and leaves isConnected, messages
\* and transcript unchanged.
C30_UnknownTypeIgnored ==
  ( /\ op.kind = "message"
    /\ op.arg.type \notin {"transcript", "workflow-step", "function-call"} ) =>
     /\ op.fired = <<>>
     /\ op.calls = <<>>
     /\ state = op.pre.state
     /\ callbacks = op.pre.callbacks

C30_Witness ==
  /\ op.kind = "message"
  /\ op.arg.type = Undefined
  /\ callbacks["messageCallback"] # Null
  /\ isConnected
  /\ Len(state.messages) = 1
  /\ op.fired = <<>>

\* ---- the Agent component ----

\* C12 (as stated): the call status starts INACTIVE, is ACTIVE after every
\* call-start event, and is FINISHED after every call-end event, after every
\* disconnect of a connected session and after every error event.
C12_Original ==
  /\ ui.phase = "initial" => ui.callStatus = "INACTIVE"
  /\ act.kind = "call-start" => ui.callStatus = "ACTIVE"
  /\ act.kind = "call-end" => ui.callStatus = "FINISHED"
  /\ (act.kind = "handleDisconnect" /\ op.pre.state.isConnected) =>
        ui.callStatus = "FINISHED"
  /\ act.kind = "error" => ui.callStatus = "FINISHED"

\* C12 (amended): the call status starts INACTIVE, is ACTIVE after every
\* call-start event, is FINISHED after every call-end event and after every
\* disconnect of a connected session, and is INACTIVE after every error
\* event.
C12_StatusSetByEvents ==
  /\ ui.phase = "initial" => ui.callStatus = "INACTIVE"
  /\ (act.kind = "setup" /\ act.pre.phase = "initial") => ui.callStatus = "INACTIVE"
  /\ act.kind = "call-start" => ui.callStatus = "ACTIVE"
  /\ act.kind = "call-end" => ui.callStatus = "FINISHED"
  /\ (act.kind = "handleDisconnect" /\ op.pre.state.isConnected) =>
        ui.callStatus = "FINISHED"
  /\ act.kind = "error" => ui.callStatus = "INACTIVE"

C12_Witness ==
  /\ act.kind = "error"
  /\ act.pre.callStatus = "ACTIVE"
  /\ op.pre.state.isConnected
  /\ ui.callStatus = "INACTIVE"

\* C13 (as stated): a step that finds the call status INACTIVE or FINISHED
\* and leaves it CONNECTING or ACTIVE is a handleCall; no SDK event does it.
C13_Original ==
  ( /\ act.pre.callStatus \in {"INACTIVE", "FINISHED"}
    /\ ui.callStatus \in {"CONNECTING", "ACTIVE"} ) => act.kind = "handleCall"

\* C14 (as stated): a failed vapi.start, thrown or rejected, reaches the
\* caller of start() and handleCall's catch block, which leaves the status
\* INACTIVE; once the failure has happened the status is not CONNECTING.
C14_Original ==
  /\ ( /\ act.kind = "handleCall"
       /\ op.calls # <<>>
       /\ act.arg = "throw" ) =>
        (op.raised /\ act.caught /\ ui.callStatus = "INACTIVE")
  /\ act.kind = "startRejected" => ui.callStatus # "CONNECTING"

\* C15: handleDisconnect on a connected wrapper calls stop(), which asks
\* the engine to stop exactly once, and leaves the status FINISHED; on a
\* wrapper that is not connected, whatever the status, it calls nothing and
\* leaves the status as it was.
C15_Disconnect ==
  act.kind = "handleDisconnect" =>
     IF op.pre.state.isConnected
     THEN /\ op.kind = "stop"
          /\ op.calls = << VapiStop >>
          /\ ui.callStatus = "FINISHED"
     ELSE /\ op.calls = <<>>
          /\ state = op.pre.state
          /\ ui.callStatus = act.pre.callStatus

C15_Witness ==
  /\ act.kind = "handleDisconnect"
  /\ act.pre.callStatus = "ACTIVE"
  /\ op.pre.state.isConnected
  /\ op.calls = << VapiStop >>
  /\ ui.callStatus = "FINISHED"

C15_WitnessConnecting ==
  /\ act.kind = "handleDisconnect"
  /\ act.pre.callStatus = "CONNECTING"
  /\ engine.starting > 0
  /\ op.calls = <<>>
  /\ ui.callStatus = "CONNECTING"
\* C16: a step that brings the call status to FINISHED navigates home
\* without calling createFeedback when the type is "generate", and otherwise
\* calls createFeedback once with the accumulated messages and does not
\* navigate yet; when a createFeedback call returns, the component navigates
\* to the feedback view exactly when the result has success and a feedback
\* id, to the home route otherwise, and does not call createFeedback again.
C16_FinishedFlow ==
  /\ (act.pre.callStatus # "FINISHED" /\ ui.callStatus = "FINISHED") =>
        IF ui.type = "generate"
        THEN /\ act.nav = << HomeRoute >>
             /\ act.feedback = <<>>
        ELSE /\ act.feedback = << [transcript |-> ui.messages] >>
             /\ ui.messages = act.pre.messages
             /\ act.nav = <<>>
  /\ act.kind = "feedbackResult" =>
        /\ act.nav = IF act.arg.success /\ act.arg.feedbackId # Undefined
                     THEN << FeedbackRoute >> ELSE << HomeRoute >>
        /\ act.feedback = <<>>
        /\ op.calls = <<>>

C16_Witness ==
  /\ act.kind = "call-end"
  /\ act.pre.callStatus = "ACTIVE"
  /\ ui.callStatus = "FINISHED"
  /\ ui.type = "interview"
  /\ Len(ui.messages) = 2
  /\ act.feedback = << [transcript |-> ui.messages] >>

C16_WitnessResult ==
  /\ act.kind = "feedbackResult"
  /\ act.arg.success
  /\ act.arg.feedbackId = Undefined
  /\ act.nav = << HomeRoute >>

\* C17: a handleCall that finds the wrapper not connected reaches vapi.start
\* whatever the call status, CONNECTING included, and leaves the flag false:
\* a second click before any call-start starts a second session.
C17_SecondStartReachesEngine ==
  ( /\ act.kind = "handleCall"
    /\ act.pre.workflowRef # NoRef
    /\ ~op.pre.state.isConnected ) =>
       /\ op.kind = "start"
       /\ op.calls = << VapiStart("vars") >>
       /\ ~isConnected

C17_Witness ==
  /\ act.kind = "handleCall"
  /\ act.pre.callStatus = "CONNECTING"
  /\ CallButtonShown(act.pre)
  /\ ~op.pre.state.isConnected
  /\ Len(op.calls) = 1
  /\ engine.starts = 2
  /\ engine.starting = 2

\* the wrappers of the component that destroy() has not been called on
LiveWrappers == {i \in 1..Len(wrappers) : wrappers[i] = "live"}

\* C20: every wrapper the mount effect created has had destroy() called on
\* it once the component has unmounted or the effect is about to run again,
\* also when a setup returned early; while mounted only the wrapper held by
\* workflowRef is not destroyed, so at most one is.
C20_WrappersDestroyed ==
  /\ Cardinality(LiveWrappers) <= 1
  /\ ui.phase \in {"rerun", "unmounted"} => LiveWrappers = {}
  /\ ui.phase = "mounted" => LiveWrappers \subseteq {ui.workflowRef}
  /\ (act.kind \in {"typeChange", "unmount"} /\ act.pre.workflowRef # NoRef) =>
        /\ op.kind = "destroy"
        /\ wrappers[act.pre.workflowRef] = "destroyed"

C20_Witness ==
  /\ act.kind = "unmount"
  /\ ui.phase = "unmounted"
  /\ Len(wrappers) = 2
  /\ LiveWrappers = {}
  /\ op.kind = "destroy"
  /\ op.calls = << VapiStop >>

C20_WitnessEarlyReturn ==
  /\ act.kind = "setup"
  /\ act.arg = "null"
  /\ act.pre.phase = "rerun"
  /\ Len(wrappers) = 1
  /\ LiveWrappers = {}
\* C24: a handleCall that finds the wrapper connected makes no call on the
\* wrapper or the engine and leaves the call status, the message log, the
\* speaking indicator and the rest of the component as they were.
C24_HandleCallWhileConnected ==
  (act.kind = "handleCall" /\ op.pre.state.isConnected) =>
     /\ op.calls = <<>>
     /\ op.kind = "none"
     /\ state = op.pre.state
     /\ ui = act.pre
     /\ ui.callStatus # "CONNECTING"
     /\ act.nav = <<>>
     /\ act.feedback = <<>>

C24_Witness ==
  /\ act.kind = "handleCall"
  /\ op.pre.state.isConnected
  /\ ui.callStatus = "ACTIVE"
  /\ ui.isSpeaking
  /\ Len(ui.messages) = 1
  /\ op.calls = <<>>

\* C26 (as stated): an SDK event that finds the call status FINISHED and
\* leaves it FINISHED calls createFeedback no further time and navigates no
\* further time.
C26_Original ==
  ( /\ act.kind \in EventKinds
    /\ act.pre.callStatus = "FINISHED"
    /\ ui.callStatus = "FINISHED" ) =>
       /\ act.feedback = <<>>
       /\ act.nav = <<>>

\* C27 (as stated): while the component is mounted with a wrapper, the call
\* status is ACTIVE exactly when the wrapper's isConnected() is true.
C27_Original ==
  (ui.phase = "mounted" /\ ui.workflowRef # NoRef) =>
     (ui.callStatus = "ACTIVE" <=> isConnected)

\* C25 (as stated): with an engine that eventually answers every session it
\* accepted, a handleCall that set the status to CONNECTING is eventually
\* followed by another status, and a call-start event that finds the status
\* CONNECTING leaves it ACTIVE.  The engine owes an answer only while a
\* session it accepted is starting, and the component may stay idle for ever,
\* so the status is certain to leave CONNECTING exactly when every mounted
\* CONNECTING state has such a session: that is the finite form checked.
C25_Original ==
  /\ (ui.phase = "mounted" /\ ui.callStatus = "CONNECTING")
        => engine.starting > 0
  /\ (act.kind = "call-start" /\ act.pre.callStatus = "CONNECTING")
        => ui.callStatus = "ACTIVE"

\* ---- the variables of a call ----

\* the list as the workflow is to read it: line n is "n. " and the n-th
\* question, lines separated by a newline
RECURSIVE Enumerated(_)
Enumerated(list) ==
  LET n == Len(list)
      line == ToString(n) \o ". " \o list[n]
  IN IF n = 1 THEN line
     ELSE Enumerated(SubSeq(list, 1, n - 1)) \o "\n" \o line

\* C21: the mapping handleCall hands to start has the caller's name as
\* username ("Candidate" when the name is missing or empty), the caller's id
\* as userid ("unknown" when missing or empty), and a questions entry exactly
\* when the type is not "generate" and the question list is given and not
\* empty; the entry is the questions in their order, the i-th as "i. " and
\* the question, joined by newlines.
C21_VariablesHanded ==
  \A k \in 1..Len(handed) :
    LET p == handed[k].props
        v == handed[k].variableValues
        asked == p.type # "generate" /\ p.questions # <<>> /\ p.questions # << <<>> >>
    IN /\ {"username", "userid"} \subseteq DOMAIN v
       /\ DOMAIN v \subseteq {"username", "userid", "questions"}
       /\ v.username = (IF p.userName \in {Undefined, ""} THEN "Candidate" ELSE p.userName)
       /\ v.userid = (IF p.userId \in {Undefined, ""} THEN "unknown" ELSE p.userId)
       /\ ("questions" \in DOMAIN v) <=> asked
       /\ asked => v.questions = Enumerated(p.questions[1])

\* an interview with two different questions and no user name
C21_Witness ==
  /\ handed # <<>>
  /\ handed[1].props.type = "interview"
  /\ handed[1].props.userName = Undefined
  /\ handed[1].props.userId = "u1"
  /\ handed[1].props.questions = << << "Why?", "How?" >> >>
  /\ handed[1].variableValues =
       [username |-> "Candidate", userid |-> "u1", questions |-> "1. Why?\n2. How?"]

\* a generate session that has questions: no entry
C21_WitnessGenerate ==
  /\ handed # <<>>
  /\ handed[1].props.type = "generate"
  /\ handed[1].props.questions = << << "How?" >> >>
  /\ handed[1].variableValues = [username |-> "Jane", userid |-> "unknown"]

\* ---- the session token ----

\* C22: getVapiSessionToken never rejects; when the request failed or the
\* endpoint answered with a status outside 200..299, it resolves to the
\* public token of the build, or to the empty string when there is none.
C22_HelperNeverRejects ==
  /\ tk.result.settled # "rejected"
  /\ (tk.pc = "done" /\ tk.caller = "helper") =>
       /\ tk.result.settled = "resolved"
       /\ (~tk.sent \/ tk.received.status \notin 200..299) =>
            tk.result.value = (IF tk.env \in {Undefined, ""} THEN "" ELSE tk.env)

\* the provider refused, the endpoint passed the 401 on, the helper answers
\* with the public token
C22_Witness ==
  /\ tk.pc = "done"
  /\ tk.caller = "helper"
  /\ tk.provider.status = 401
  /\ tk.received.status = 401
  /\ tk.env = "pub"
  /\ tk.result = [settled |-> "resolved", value |-> "pub"]

\* the request itself failed and no public token is configured
C22_WitnessNoToken ==
  /\ tk.pc = "done"
  /\ ~tk.sent
  /\ tk.env = Undefined
  /\ tk.result = [settled |-> "resolved", value |-> ""]

\* C23: the endpoint answers 200, success true and a token exactly when the
\* request has a userId and the provider call succeeds; a request without
\* userId gets 400, success false, and no provider call is made; a provider
\* status outside 200..299 is passed on with success false; an exception
\* gives 500 with success false; success true never comes with another
\* status than 200.
C23_EndpointResponses ==
  tk.pc \in {"answered", "done"} /\ tk.sent =>
    LET request   == tk.request
        provider  == tk.provider
        response  == tk.response
        hasUserId == request.valid /\ request.userId \notin {Undefined, ""}
        called    == tk.providerCalls # <<>>
        succeeded == /\ called /\ ~provider.failed /\ provider.status \in 200..299
                     /\ provider.json /\ provider.token # Undefined
        threw     == \/ ~request.valid
                     \/ called /\ provider.failed
                     \/ called /\ ~provider.failed /\ provider.status \in 200..299
                          /\ ~provider.json
    IN /\ (response.status = 200 /\ response.success /\ response.token # Undefined)
            <=> (hasUserId /\ succeeded)
       /\ (request.valid /\ ~hasUserId) =>
            response.status = 400 /\ ~response.success /\ ~called
       /\ (called /\ ~provider.failed /\ provider.status \notin 200..299) =>
            response.status = provider.status /\ ~response.success
       /\ threw => response.status = 500 /\ ~response.success
       /\ response.success => response.status = 200
       /\ response.json
       /\ hasUserId <=> called

\* a token issued: the provider answered 201 with a token
C23_Witness ==
  /\ tk.pc = "answered"
  /\ tk.request.userId = "u1"
  /\ tk.provider.status = 201
  /\ tk.response = HttpResponse(200, TRUE, TRUE, "t2", Undefined)

\* the provider's 429 passed on
C23_WitnessProviderStatus ==
  /\ tk.pc = "answered"
  /\ tk.providerCalls # <<>>
  /\ tk.provider.status = 429
  /\ tk.response.status = 429
  /\ ~tk.response.success

\* a body without userId: 400 and the provider is not asked
C23_WitnessNoUserId ==
  /\ tk.pc = "answered"
  /\ tk.request = [valid |-> TRUE, userId |-> Undefined]
  /\ tk.response.status = 400
  /\ tk.providerCalls = <<>>

\* ---- a call started after a stop ----

\* C31 (as stated): after stop() on a connected session no start() reaches
\* the engine until the call-end of the stopped call has been handled, so a
\* start forwarded from the FINISHED status finds no call still running; and
\* a call-end never leaves a call that is still running marked as
\* disconnected.
C31_Original ==
  /\ ( /\ act.kind = "handleCall"
       /\ act.pre.callStatus = "FINISHED"
       /\ op.calls # <<>> ) => engine.running = 0
  /\ act.kind = "call-end" => engine.running = 0

\* ---- safeAuth ----

\* C33 (as stated): getUserByEmail and getUser return null exactly when the
\* lookup failed because the user was not found, and throw every other
\* failure of the lookup again.
C33_Original ==
  auth.pc = "done" =>
    /\ auth.result.settled = "null" <=>
         auth.outcome.error.code = "auth/user-not-found"
    /\ ( /\ auth.outcome.error # NoError
         /\ auth.outcome.error.code # "auth/user-not-found" ) =>
           /\ auth.result.settled = "rejected"
           /\ auth.result.error = auth.outcome.error

\* ---- the transcript of a call ----

\* C32 (as stated): the transcript handed to createFeedback holds the final
\* transcript messages received since the handleCall that started the call,
\* and none that the list already held at that handleCall.
C32_Original ==
  \A k \in 1..Len(act.feedback) :
    LET transcript == act.feedback[k].transcript
    IN /\ act.since <= Len(transcript)
       /\ transcript = SubSeq(transcript, act.since + 1, Len(transcript))
====
